---- MODULE Spec2Model ----
(***************************************************************************)
(* The consensus aggregator of RateMySpeak: analyzeAudio runs the external *)
(* analysis three times and merges the three answers.  Two versions of the *)
(* aggregator are in the repository and both are modelled:                 *)
(*   "part_003"  src/unnamed/part_003, lines 111-178                       *)
(*   "part_004"  src/unnamed/part_004, lines 96-132                        *)
(* Scores are counted in hundredths of a point, so 4.33 is 433.  A number  *)
(* is a fraction n/d of hundredths; d = 0 stands for NaN.                  *)
(*                                                                         *)
(* RenderSpec is HighlightedText (src/unnamed/part_002, lines 10-47), the  *)
(* component that marks the mistakes in a turn of the transcript.          *)
(* AppSpec is the App component (src/App.tsx, both versions) around        *)
(* analyzeAudio: the views, the handlers and the retry.                    *)
(***************************************************************************)
EXTENDS Integers, Sequences, FiniteSets, TLC

VARIABLES
  impl,          \* which version of analyzeAudio runs
  API_KEY,       \* process.env.API_KEY
  audio,         \* the FileReader: "unread", "read" or "failed"
  pc,            \* where analyzeAudio stands: uncalled, idle, reading, awaiting, done, hung
  calls,         \* the promise of each run: unissued, inflight, fulfilled, rejected
  attempts,      \* how often generateContent was invoked for each run
  response,      \* the JSON object generateContent answered each run with
  results,       \* the array Promise.all collects, and the merge reads
  reason,        \* the rejection Promise.all rejected with
  outcome,       \* of the promise analyzeAudio returned: pending, success, failure
  returned,      \* the AnalysisResult it fulfilled with
  thrown,        \* the value it rejected with
  firstSettled,  \* the run whose promise settled first (0: none yet)
  text,          \* HighlightedText: the text prop
  mistakes,      \* HighlightedText: the mistakes prop
  pieces,        \* HighlightedText: the array text.split(regex) returned
  spans,         \* HighlightedText: the elements it rendered, in order
  rendered,      \* HighlightedText: it has rendered
  app,           \* which App component is mounted
  activeTab,     \* App: the tab shown
  appState,      \* App: idle, loading, success or error
  isLoading,     \* second App: an analysis runs
  file,          \* second App: a file is selected
  error,         \* App: the message shown, <<>> for null
  analysisResult,\* App: the result shown (result in the second App), NoPayload for null
  started,       \* how many times the App has called analyzeAudio
  triedAgain,    \* Try Again was pressed
  oldFile,       \* App: an older audio is selected
  newFile,       \* App: a newer audio is selected
  oldAnalysisResult, \* App: the analysis of the older audio, NoPayload for null
  newAnalysisResult, \* App: the analysis of the newer audio, NoPayload for null
  comparisonResult,  \* App: the comparison shown, NoReport for null
  loadingMessage,\* App: the text under the spinner
  flow,          \* the await an App handler is suspended at: none, single, older, newer, report
  report         \* the promise generateComparisonReport returned

\* the state of the HighlightedText component
hlVars == <<text, mistakes, pieces, spans, rendered>>

\* the state of the App component
\* the state of the comparison flow of the App
cmpVars == <<oldFile, newFile, oldAnalysisResult, newAnalysisResult,
             comparisonResult, loadingMessage, flow, report>>

uiVars == <<app, activeTab, appState, isLoading, file, error, analysisResult,
            started, triedAgain, cmpVars>>

\* what analyzeAudio leaves alone
viewVars == <<hlVars, uiVars>>

vars == <<impl, API_KEY, audio, pc, calls, attempts, response, results, reason,
          outcome, returned, thrown, firstSettled, hlVars, uiVars>>

\* ------------------------------------------------------------ bounds
\* Longest dimension list an answer of the external model carries.
MaxDims == 2

\* Longest text of a conversation turn, in characters.
MaxText == 3

\* Longest mistake list of a conversation turn.
MaxMistakes == 3

\* How many analyses the user starts in one session.
MaxAnalyses == 2

\* ------------------------------------------------------------ constants
analysisRuns == 3

Runs == 1..analysisRuns

Impls == {"part_003", "part_004"}

\* ------------------------------------------------------------ numbers
RECURSIVE GCD(_, _)
GCD(a, b) == IF b = 0 THEN a ELSE GCD(b, a % b)

Num(k) == [n |-> k, d |-> 1]

NaN == [n |-> 0, d |-> 0]

IsNaN(x) == x.d = 0

Norm(x) ==
  IF x.d = 0 THEN NaN
  ELSE LET g == GCD(x.n, x.d) IN [n |-> x.n \div g, d |-> x.d \div g]

\* a + b of JavaScript numbers; NaN is absorbing
Add(a, b) ==
  IF IsNaN(a) \/ IsNaN(b) THEN NaN
  ELSE Norm([n |-> a.n * b.d + b.n * a.d, d |-> a.d * b.d])

Div_sum(a, k) == a

\* a / k for a positive integer k
Div(a, k) == IF IsNaN(a) THEN NaN ELSE Norm([n |-> a.n, d |-> a.d * k])

\* parseFloat(x.toFixed(2)): the nearest hundredth.  A mean of three scores of
\* two decimals is never half way between two hundredths, so the direction a
\* half is rounded in does not show.
toFixed2(x) == IF IsNaN(x) THEN NaN ELSE Num((2 * x.n + x.d) \div (2 * x.d))

\* ------------------------------------------------------------ data model
\* AnalysisResult (types.ts).  "has" is the set of fields the JSON object
\* carries; a field outside "has" reads as undefined and holds a blank here.
\* part_004 calls the dimension list "dimensions"; the model keeps one name.
Required == {"overallScore", "dimensionAnalysis", "feedback", "fillerWords", "conversation"}

DimNames == {"Clarity", "Conciseness"}

OverallScores == {0, 400, 500}

\* The scores one answer gives to the dimensions it lists.
ScoreTables ==
  { [d \in DimNames |-> IF d = "Clarity" THEN 400 ELSE 500],
    [d \in DimNames |-> IF d = "Clarity" THEN 500 ELSE 400] }

NameLists == UNION {[1..k -> DimNames] : k \in 0..MaxDims}

\* The dimension lists of the answers: any names in any order, a name may
\* repeat or be absent.
DimLists ==
  {[k \in 1..Len(nl) |-> [name |-> nl[k], score |-> Num(t[nl[k]])]] :
     nl \in NameLists, t \in ScoreTables}

Texts ==
  { [feedback |-> <<"slow down">>,
     fillerWords |-> <<[word |-> "um", count |-> 2]>>,
     conversation |-> <<[speaker |-> "User", text |-> "I seen him"]>>],
    [feedback |-> <<"pause less">>,
     fillerWords |-> <<>>,
     conversation |-> <<[speaker |-> "User", text |-> "I saw him"]>>] }

\* The answer every other answer is a variation of.
RefPayload ==
  [has |-> Required,
   overallScore |-> Num(400),
   dimensionAnalysis |-> <<[name |-> "Clarity", score |-> Num(400)],
                           [name |-> "Conciseness", score |-> Num(500)]>>,
   feedback |-> <<"slow down">>,
   fillerWords |-> <<[word |-> "um", count |-> 2]>>,
   conversation |-> <<[speaker |-> "User", text |-> "I seen him"]>>]

\* p without field f
Without(p, f) ==
  [p EXCEPT !.has = p.has \ {f},
            !.overallScore = IF f = "overallScore" THEN NaN ELSE @,
            !.dimensionAnalysis = IF f = "dimensionAnalysis" THEN <<>> ELSE @,
            !.feedback = IF f = "feedback" THEN <<>> ELSE @,
            !.fillerWords = IF f = "fillerWords" THEN <<>> ELSE @,
            !.conversation = IF f = "conversation" THEN <<>> ELSE @]

\* The JSON objects the external model answers with: RefPayload with another
\* overall score, another dimension list, other texts, or one field absent.
Payloads ==
  {[RefPayload EXCEPT !.overallScore = Num(s)] : s \in OverallScores}
  \cup {[RefPayload EXCEPT !.dimensionAnalysis = l] : l \in DimLists}
  \cup {[RefPayload EXCEPT !.feedback = t.feedback,
                           !.fillerWords = t.fillerWords,
                           !.conversation = t.conversation] : t \in Texts}
  \cup {Without(RefPayload, f) : f \in Required}

\* No object: the value of a slot nothing was stored in.
NoPayload ==
  [has |-> {}, overallScore |-> NaN, dimensionAnalysis |-> <<>>,
   feedback |-> <<>>, fillerWords |-> <<>>, conversation |-> <<>>]

\* A thrown value.  isError: it is an instance of Error.  message: the parts
\* the message string is concatenated from.
NoError == [isError |-> FALSE, message |-> <<>>]

\* What generateContent rejects with: an Error of the SDK, or a value that is
\* no Error.
TransportErrors ==
  { [isError |-> TRUE, message |-> <<"429 quota exceeded">>],
    [isError |-> FALSE, message |-> <<"aborted">>] }

\* JSON.parse(response.text.trim()) on a text that is no JSON
SyntaxError == [isError |-> TRUE, message |-> <<"Unexpected token in JSON">>]

\* reading a property of undefined
TypeError == [isError |-> TRUE, message |-> <<"Cannot read properties of undefined">>]

\* what FileReader.onerror hands to reject: a ProgressEvent
ProgressEvent == [isError |-> FALSE, message |-> <<"ProgressEvent error">>]

ValidationMessage == "Invalid response structure from API. Missing required fields."

ConfigMessage003 == "Configuration Error: The API_KEY environment variable is not set. Please add it to your Vercel project's Environment Variables settings and redeploy."

ConfigMessage004 == "API_KEY environment variable not set. Please set it in your Vercel project settings."

UnknownMessage == "An unknown error occurred during audio analysis."

FailedMessage == "Failed to analyze audio. The model may have had trouble with the file."

\* process.env.API_KEY: unset, the empty string, or a key
KeyValues == {<<>>, <<"">>, <<"AIza-key">>}

\* ------------------------------------------------------------ one run
\* !result.f of JavaScript: an absent field is falsy, a number is falsy when it
\* is 0 or NaN, an array (empty or not) is truthy.
Falsy(p, f) ==
  \/ f \notin p.has
  \/ f = "overallScore" /\ (IsNaN(p.overallScore) \/ p.overallScore.n = 0)

\* The check of performSingleAnalysis: TRUE when the object is returned.
Validates(p) == \A f \in Required : ~Falsy(p, f)

\* performSingleAnalysis (part_003) and callApi (part_004) on a parsed answer:
\* how the promise of the run settles.
SettleRun(im, p) ==
  IF im = "part_003" /\ ~Validates(p)
  THEN [ok |-> FALSE, value |-> NoPayload,
        error |-> [isError |-> TRUE, message |-> <<ValidationMessage>>]]
  ELSE [ok |-> TRUE, value |-> p, error |-> NoError]

\* ------------------------------------------------------------ merging
Min(S) == CHOOSE x \in S : \A y \in S : x <= y

\* result.overallScore read in a sum: undefined + number is NaN
OverallOf(p) == IF "overallScore" \in p.has THEN p.overallScore ELSE NaN

RECURSIVE SumOverall(_, _)
SumOverall(rs, k) == IF k = 0 THEN Num(0) ELSE Add(SumOverall(rs, k - 1), OverallOf(rs[k]))

\* result.dimensionAnalysis.find(d => d.name === name): the first dimension of
\* that name, and its score or 0 when there is none (part_003:158-159)
FindScore(p, name) ==
  LET at == {k \in 1..Len(p.dimensionAnalysis) : p.dimensionAnalysis[k].name = name}
  IN  IF at = {} THEN Num(0) ELSE p.dimensionAnalysis[Min(at)].score

RECURSIVE SumByName(_, _, _)
SumByName(rs, name, k) ==
  IF k = 0 THEN Num(0) ELSE Add(SumByName(rs, name, k - 1), FindScore(rs[k], name))

\* The run whose copy carries the texts of the merged result.
Designated_last(rs) == rs[analysisRuns]

Designated(rs) == rs[1]

\* part_003:148-169.  finalResult is a copy of results[0]; the runs are not
\* written to.  threw is never TRUE: every run passed Validates.
Merge003_longest(rs) ==
  LET first == rs[1]
      base == rs[CHOOSE i \in Runs : \A j \in Runs :
                   Len(rs[j].dimensionAnalysis) <= Len(rs[i].dimensionAnalysis)]
      averagedDimensions ==
        [k \in 1..Len(base.dimensionAnalysis) |->
           [name  |-> base.dimensionAnalysis[k].name,
            score |-> Div(SumByName(rs, base.dimensionAnalysis[k].name, analysisRuns),
                          analysisRuns)]]
  IN  [threw |-> FALSE,
       value |-> [first EXCEPT !.overallScore = Div(SumOverall(rs, analysisRuns), analysisRuns),
                               !.dimensionAnalysis = averagedDimensions],
       first |-> rs[1]]

Merge003(rs) ==
  LET first == Designated(rs)
      averagedDimensions ==
        [k \in 1..Len(first.dimensionAnalysis) |->
           [name  |-> first.dimensionAnalysis[k].name,
            score |-> Div(SumByName(rs, first.dimensionAnalysis[k].name, analysisRuns),
                          analysisRuns)]]
      finalResult ==
        [first EXCEPT !.has = @ \cup {"overallScore"},
                      !.overallScore = Div(SumOverall(rs, analysisRuns), analysisRuns),
                      !.dimensionAnalysis =
                         IF "dimensionAnalysis" \in first.has THEN averagedDimensions ELSE @]
  IN  [threw |-> FALSE, value |-> finalResult, first |-> rs[1]]

\* r.dimensions[index].score throws when r has no list or the list is short
HasIndex(p, k) == "dimensionAnalysis" \in p.has /\ k <= Len(p.dimensionAnalysis)

RECURSIVE SumByIndex(_, _, _)
SumByIndex(rs, idx, k) ==
  IF k = 0 THEN Num(0) ELSE Add(SumByIndex(rs, idx, k - 1), rs[k].dimensionAnalysis[idx].score)

\* part_004:115-126.  avgResult is results[0] itself: the merge writes into the
\* first run.  forEach stops at the first index some run lacks (a TypeError);
\* the dimensions before it are already overwritten.
Merge004(rs) ==
  LET first == Designated(rs)
      n == IF "dimensionAnalysis" \in first.has THEN Len(first.dimensionAnalysis) ELSE 0
      bad == {k \in 1..n : \E r \in Runs : ~HasIndex(rs[r], k)}
      threw == "dimensionAnalysis" \notin first.has \/ bad # {}
      stop == IF bad = {} THEN n + 1 ELSE Min(bad)
      avgResult ==
        [first EXCEPT !.has = @ \cup {"overallScore"},
                      !.overallScore = toFixed2(Div(SumOverall(rs, analysisRuns), analysisRuns)),
                      !.dimensionAnalysis =
                         [k \in 1..Len(@) |->
                            IF k < stop
                            THEN [name |-> @[k].name,
                                  score |-> toFixed2(Div(SumByIndex(rs, k, analysisRuns), analysisRuns))]
                            ELSE @[k]]]
  IN  [threw |-> threw, value |-> avgResult, first |-> avgResult]

Merge(im, rs) == IF im = "part_003" THEN Merge003(rs) ELSE Merge004(rs)

\* The catch block of analyzeAudio: what is thrown on for a caught e.
Catch(im, e) ==
  IF im = "part_003"
  THEN IF e.isError THEN e ELSE [isError |-> TRUE, message |-> <<UnknownMessage>>]
  ELSE [isError |-> TRUE, message |-> <<FailedMessage>>]

\* ------------------------------------------------------------ Promise.all
\* The state of Promise.all(analysisPromises) for the states of its promises:
\* rejected with the first rejection, fulfilled when every promise is.
Joined_allSettled(cs) ==
  IF \A i \in Runs : cs[i] \in {"fulfilled", "rejected"} THEN "fulfilled" ELSE "pending"

Joined_waits(cs) ==
  IF \E i \in Runs : cs[i] \in {"unissued", "inflight"} THEN "pending"
  ELSE IF \E i \in Runs : cs[i] = "rejected" THEN "rejected" ELSE "fulfilled"

Joined(cs) ==
  IF \E i \in Runs : cs[i] = "rejected" THEN "rejected"
  ELSE IF \A i \in Runs : cs[i] = "fulfilled" THEN "fulfilled"
  ELSE "pending"

\* The index of the results array the value of promise i is stored at.
Slot_byCompletion(i, cs) == 1 + Cardinality({j \in Runs : cs[j] = "fulfilled"})

Slot(i, cs) == i

\* ------------------------------------------------------------ state machine
\* !process.env.API_KEY (part_003:131) and !apiKey (part_004:20)
KeyMissing_never(k) == FALSE

KeyMissing(k) == k = <<>> \/ k[1] = ""

ConfigError(im) ==
  [isError |-> TRUE,
   message |-> <<IF im = "part_003" THEN ConfigMessage003 ELSE ConfigMessage004>>]

\* The components render nothing while analyzeAudio runs.
NotRendered ==
  /\ text = <<>>
  /\ mistakes = [defined |-> FALSE, items |-> <<>>]
  /\ pieces = <<>>
  /\ spans = <<>>
  /\ rendered = FALSE

\* ComparisonResult (types.ts), as JSON.parse hands it over; "has" is the set
\* of fields the object carries.
ReportFields == {"dimensionChanges", "improvementSummary", "areasForNextFocus"}

NoReport == [has |-> {}]

\* The objects the external model answers a comparison with: a whole report,
\* or one without a required field.
Reports == {[has |-> ReportFields], [has |-> ReportFields \ {"areasForNextFocus"}]}

AnalyzingMessage == "Analyzing... This may take a few moments."

\* generateComparisonReport was not called
NotCompared == [state |-> "uncalled", value |-> NoReport, thrown |-> NoError]

\* App.tsx:14, 20-24: the comparison state as mounted
NoComparison ==
  /\ oldFile = FALSE
  /\ newFile = FALSE
  /\ oldAnalysisResult = NoPayload
  /\ newAnalysisResult = NoPayload
  /\ comparisonResult = NoReport
  /\ loadingMessage = AnalyzingMessage
  /\ flow = "none"
  /\ report = NotCompared

\* No App is looked at: the first one, as mounted.
NoApp ==
  /\ app = "App_10"
  /\ activeTab = "analyze"
  /\ appState = "idle"
  /\ isLoading = FALSE
  /\ file = FALSE
  /\ error = <<>>
  /\ analysisResult = NoPayload
  /\ started = 0
  /\ triedAgain = FALSE
  /\ NoComparison

Init ==
  /\ impl \in Impls
  /\ API_KEY \in KeyValues
  /\ audio = "unread"
  /\ pc = "idle"
  /\ calls = [i \in Runs |-> "unissued"]
  /\ attempts = [i \in Runs |-> 0]
  /\ response = [i \in Runs |-> NoPayload]
  /\ results = [i \in Runs |-> NoPayload]
  /\ reason = NoError
  /\ outcome = "pending"
  /\ returned = NoPayload
  /\ thrown = NoError
  /\ firstSettled = 0
  /\ NotRendered
  /\ NoApp

\* analyzeAudio is called: the credential check, then the read of the file is
\* started and awaited.
analyzeAudio ==
  /\ pc = "idle"
  /\ IF KeyMissing(API_KEY)
     THEN /\ pc' = "done"
          /\ outcome' = "failure"
          /\ thrown' = ConfigError(impl)
     ELSE /\ pc' = "reading"
          /\ UNCHANGED <<outcome, thrown>>
  /\ UNCHANGED <<impl, API_KEY, audio, calls, attempts, response, results, reason,
                 returned, firstSettled, viewVars>>

\* The file is read: the continuation issues every run, one after the other
\* without a suspension between them, and awaits Promise.all.
FileLoaded ==
  /\ pc = "reading"
  /\ pc' = "awaiting"
  /\ audio' = "read"
  /\ calls' = [i \in Runs |-> "inflight"]
  /\ attempts' = [i \in Runs |-> attempts[i] + 1]
  /\ UNCHANGED <<impl, API_KEY, response, results, reason, outcome, returned,
                 thrown, firstSettled, viewVars>>

\* The read fails.  part_003 resolves only on a string result and has no
\* reject: its promise stays pending.  part_004 rejects with the event, outside
\* the try block.
FileReadFails ==
  /\ pc = "reading"
  /\ audio' = "failed"
  /\ IF impl = "part_003"
     THEN /\ pc' = "hung"
          /\ UNCHANGED <<outcome, thrown>>
     ELSE /\ pc' = "done"
          /\ outcome' = "failure"
          /\ thrown' = ProgressEvent
  /\ UNCHANGED <<impl, API_KEY, calls, attempts, response, results, reason,
                 returned, firstSettled, viewVars>>

\* The promise of run i settles as s; the reactions of Promise.all and of the
\* awaiting analyzeAudio run before any other event is handled.
Settle(i, s) ==
  LET cs == [calls EXCEPT ![i] = IF s.ok THEN "fulfilled" ELSE "rejected"]
      rs == IF s.ok THEN [results EXCEPT ![Slot(i, calls)] = s.value] ELSE results
      why == IF ~s.ok /\ reason = NoError THEN s.error ELSE reason
      j == Joined(cs)
  IN  /\ calls' = cs
      /\ firstSettled' = IF firstSettled = 0 THEN i ELSE firstSettled
      /\ IF pc # "awaiting"
         THEN UNCHANGED <<pc, results, reason, outcome, returned, thrown>>
         ELSE /\ reason' = why
              /\ CASE j = "pending" ->
                        /\ results' = rs
                        /\ UNCHANGED <<pc, outcome, returned, thrown>>
                   [] j = "rejected" ->
                        /\ results' = rs
                        /\ pc' = "done"
                        /\ outcome' = "failure"
                        /\ thrown' = Catch(impl, why)
                        /\ UNCHANGED returned
                   [] j = "fulfilled" ->
                        \E m \in {Merge(impl, rs)} :
                          /\ results' = [rs EXCEPT ![1] = m.first]
                          /\ pc' = "done"
                          /\ IF m.threw
                             THEN /\ outcome' = "failure"
                                  /\ thrown' = Catch(impl, TypeError)
                                  /\ UNCHANGED returned
                             ELSE /\ outcome' = "success"
                                  /\ returned' = m.value
                                  /\ UNCHANGED thrown

\* generateContent of run i answers with the JSON object p.
CallReturns(i, p) ==
  /\ calls[i] = "inflight"
  /\ response' = [response EXCEPT ![i] = p]
  /\ Settle(i, SettleRun(impl, p))
  /\ UNCHANGED <<impl, API_KEY, audio, attempts, viewVars>>

\* generateContent of run i answers with a text JSON.parse rejects.
CallReturnsMalformed(i) ==
  /\ calls[i] = "inflight"
  /\ Settle(i, [ok |-> FALSE, value |-> NoPayload, error |-> SyntaxError])
  /\ UNCHANGED <<impl, API_KEY, audio, attempts, response, viewVars>>

\* generateContent of run i rejects with e.
CallFails_retry(i, e) ==
  /\ calls[i] = "inflight"
  /\ attempts[i] < analysisRuns
  /\ attempts' = [attempts EXCEPT ![i] = @ + 1]
  /\ UNCHANGED <<impl, API_KEY, audio, pc, calls, response, results, reason, outcome,
                 returned, thrown, firstSettled, viewVars>>

CallFails(i, e) ==
  /\ calls[i] = "inflight"
  /\ Settle(i, [ok |-> FALSE, value |-> NoPayload, error |-> e])
  /\ UNCHANGED <<impl, API_KEY, audio, attempts, response, viewVars>>

Next ==
  \/ analyzeAudio
  \/ FileLoaded
  \/ FileReadFails
  \/ \E i \in Runs, p \in Payloads : CallReturns(i, p)
  \/ \E i \in Runs : CallReturnsMalformed(i)
  \/ \E i \in Runs, e \in TransportErrors : CallFails(i, e)

Spec == Init /\ [][Next]_vars

\* ------------------------------------------------------------ HighlightedText
\* A string is the sequence of its characters.  The characters of the texts:
\* a letter in both cases and a character the pattern syntax gives a meaning.
Alphabet == {"a", "A", "."}

\* String.prototype.toLowerCase
toLowerCase(s) == [k \in 1..Len(s) |-> IF s[k] = "A" THEN "a" ELSE s[k]]

\* How a RegExp with the i flag compares characters: by their upper case.
Canonicalize(c) == IF c = "a" THEN "A" ELSE c

\* the character class of part_002:17
Metacharacters == {".", "*", "+", "?", "^", "$", "{", "}", "(", ")", "|", "[", "]", "\\"}

\* phrase.replace(/[.*+?^${}()|[\]\\]/g, '\\$&'): a backslash before every
\* character of the class
escaped_not(phrase) == phrase

RECURSIVE escaped(_)
escaped(phrase) ==
  IF phrase = <<>> THEN <<>>
  ELSE (IF Head(phrase) \in Metacharacters THEN <<"\\", Head(phrase)>> ELSE <<Head(phrase)>>)
       \o escaped(Tail(phrase))

\* array.join('|')
RECURSIVE join(_)
join(a) ==
  IF a = <<>> THEN <<>>
  ELSE IF Len(a) = 1 THEN a[1]
  ELSE a[1] \o <<"|">> \o join(Tail(a))

\* The source of the pattern: '(' + mistakes.map(...).join('|') + ')'
Source(ms) ==
  <<"(">> \o join([k \in 1..Len(ms) |-> escaped(ms[k].incorrectPhrase)]) \o <<")">>

\* What the RegExp constructor reads the source between the parentheses as: the
\* alternatives a "|" separates, each a sequence of terms.  A backslash makes
\* the next character a literal; a "." alone matches any character; a letter
\* matches itself.
RECURSIVE Disjunction(_, _, _)
Disjunction(src, k, alts) ==
  LET n == Len(alts)
      term(any, c) == [alts EXCEPT ![n] = Append(@, [any |-> any, ch |-> c])]
  IN  IF k >= Len(src) THEN alts
      ELSE IF src[k] = "|" THEN Disjunction(src, k + 1, Append(alts, <<>>))
      ELSE IF src[k] = "\\" THEN Disjunction(src, k + 2, term(FALSE, src[k + 1]))
      ELSE IF src[k] = "." THEN Disjunction(src, k + 1, term(TRUE, "."))
      ELSE Disjunction(src, k + 1, term(FALSE, src[k]))

Alternatives(src) == Disjunction(src, 2, << <<>> >>)

\* Alternative alt matches S at index q (counted from 0).
MatchesAt(alt, S, q) ==
  /\ q + Len(alt) <= Len(S)
  /\ \A j \in 1..Len(alt) :
       alt[j].any \/ Canonicalize(alt[j].ch) = Canonicalize(S[q + j])

\* The match of the pattern at index q: the first alternative that matches
\* there, 0 when none does.
exec(alts, S, q) ==
  LET ok == {k \in 1..Len(alts) : MatchesAt(alts[k], S, q)}
  IN  IF ok = {} THEN 0 ELSE Min(ok)

\* S.substring(p, q), indices counted from 0
substring(S, p, q) == SubSeq(S, p + 1, q)

\* One element of the array split returns: a piece of the text between two
\* matches (alt = 0), or the capture of a match and the alternative that
\* matched.
Piece_lowered(S, p, q, alt) ==
  [part |-> toLowerCase(substring(S, p, q)), at |-> p, alt |-> alt]

Piece(S, p, q, alt) == [part |-> substring(S, p, q), at |-> p, alt |-> alt]

\* RegExp.prototype[Symbol.split]: p is the end of the last match, q the index
\* the pattern is tried at.  A match that ends at p is passed over.
RECURSIVE SplitLoop(_, _, _, _, _)
SplitLoop(alts, S, p, q, A) ==
  IF q >= Len(S) THEN Append(A, Piece(S, p, Len(S), 0))
  ELSE LET z == exec(alts, S, q)
       IN  IF z = 0 THEN SplitLoop(alts, S, p, q + 1, A)
           ELSE LET e == q + Len(alts[z])
                IN  IF e = p THEN SplitLoop(alts, S, p, q + 1, A)
                    ELSE SplitLoop(alts, S, e, e,
                                   A \o <<Piece(S, p, q, 0), Piece(S, q, e, z)>>)

\* text.split(regex)
split(S, alts) ==
  IF S = <<>>
  THEN IF exec(alts, S, 0) # 0 THEN <<>> ELSE <<Piece(S, 0, 0, 0)>>
  ELSE SplitLoop(alts, S, 0, 0, <<>>)

\* .filter(part => part): the empty string is falsy
filter(A) == SelectSeq(A, LAMBDA x : x.part # <<>>)

\* The element rendered for a part nothing was found for: a fragment.
NoMistake == [incorrectPhrase |-> <<>>, correction |-> 0, explanation |-> 0]

\* mistakes.find(m => m.incorrectPhrase.toLowerCase() === part.toLowerCase())
find_last(ms, part) ==
  LET hit == {k \in 1..Len(ms) : toLowerCase(ms[k].incorrectPhrase) = toLowerCase(part)}
  IN  IF hit = {} THEN 0 ELSE CHOOSE k \in hit : \A j \in hit : j <= k

find(ms, part) ==
  LET hit == {k \in 1..Len(ms) : toLowerCase(ms[k].incorrectPhrase) = toLowerCase(part)}
  IN  IF hit = {} THEN 0 ELSE Min(hit)

\* One rendered element: flagged is the red span with the tooltip of mistake.
Span(part, flagged, m) == [part |-> part, flagged |-> flagged, mistake |-> m]

\* !mistakes || mistakes.length === 0
NoMistakes_absent(m) == ~m.defined

NoMistakes(m) == ~m.defined \/ Len(m.items) = 0

\* The elements HighlightedText returns for its props.
Elements(S, m, A) ==
  IF NoMistakes(m) THEN <<Span(S, FALSE, NoMistake)>>
  ELSE LET parts == filter(A)
       IN  [k \in 1..Len(parts) |->
              LET h == find(m.items, parts[k].part)
              IN  IF h # 0 THEN Span(parts[k].part, TRUE, m.items[h])
                  ELSE Span(parts[k].part, FALSE, NoMistake)]

\* The texts of the conversation turns.
Texts_hl == UNION {[1..n -> Alphabet] : n \in 0..MaxText}

\* The phrases the external model marks: the empty phrase, a letter in either
\* case, the special character, and a phrase another phrase begins.
Phrases == { <<>>, <<"a">>, <<"A">>, <<".">>, <<"a", ".">> }

\* A mistake list: the k-th mistake has the k-th correction and explanation.
MistakeLists ==
  {[k \in 1..Len(ps) |-> [incorrectPhrase |-> ps[k], correction |-> k, explanation |-> k]] :
     ps \in UNION {[1..n -> Phrases] : n \in 0..MaxMistakes}}

\* The mistakes prop: absent, or a list.
MistakeProps ==
  {[defined |-> FALSE, items |-> <<>>]} \cup {[defined |-> TRUE, items |-> l] : l \in MistakeLists}

\* No analysis runs while a result is shown.
Idle ==
  /\ impl = "part_003"
  /\ API_KEY = <<"AIza-key">>
  /\ audio = "unread"
  /\ pc = "idle"
  /\ calls = [i \in Runs |-> "unissued"]
  /\ attempts = [i \in Runs |-> 0]
  /\ response = [i \in Runs |-> NoPayload]
  /\ results = [i \in Runs |-> NoPayload]
  /\ reason = NoError
  /\ outcome = "pending"
  /\ returned = NoPayload
  /\ thrown = NoError
  /\ firstSettled = 0

\* A turn of the User is handed to the component (part_002:142).
RenderInit ==
  /\ text \in Texts_hl
  /\ mistakes \in MistakeProps
  /\ pieces = <<>>
  /\ spans = <<>>
  /\ rendered = FALSE
  /\ Idle
  /\ NoApp

\* The component renders.
HighlightedText ==
  /\ ~rendered
  /\ rendered' = TRUE
  /\ \E A \in {IF NoMistakes(mistakes) THEN <<>>
               ELSE split(text, Alternatives(Source(mistakes.items)))} :
       /\ pieces' = A
       /\ spans' = Elements(text, mistakes, A)
  /\ UNCHANGED <<text, mistakes, impl, API_KEY, audio, pc, calls, attempts, response,
                 results, reason, outcome, returned, thrown, firstSettled, uiVars>>

RenderNext == HighlightedText

RenderSpec == RenderInit /\ [][RenderNext]_vars

\* ------------------------------------------------------------ App
\* Two App components are in src/App.tsx and both are modelled:
\*   "App_10"   lines 10-202: appState and the two tabs
\*   "App_210"  lines 210-335: file, result, isLoading, error
Apps == {"App_10", "App_210"}

UnknownError == "An unknown error occurred."

SelectFirst == "Please select an audio file first."

MessageOf_null(err) == <<>>

\* err instanceof Error ? err.message : "An unknown error occurred."
MessageOf(err) == IF err.isError THEN err.message ELSE <<UnknownError>>

Loading == IF app = "App_10" THEN appState = "loading" ELSE isLoading

\* renderContent: what the App shows.
View ==
  IF app = "App_10"
  THEN IF appState = "loading" THEN "loading"
       ELSE IF appState = "error" THEN "error"
       ELSE IF appState = "success" /\ activeTab = "analyze" /\ analysisResult # NoPayload
            THEN "results"
       ELSE IF /\ appState = "success" /\ activeTab = "compare"
               /\ comparisonResult # NoReport
               /\ oldAnalysisResult # NoPayload /\ newAnalysisResult # NoPayload
            THEN "comparison"
       ELSE IF activeTab = "analyze" THEN "upload"
       ELSE "compare"
  ELSE IF isLoading THEN "loading"
       ELSE IF error # <<>> THEN "error"
       ELSE IF analysisResult # NoPayload THEN "results"
       ELSE "upload"

\* analyzeAudio(file) is called: a new execution, at its first statement.  The
\* runs of an earlier execution that are still in flight are lost sight of;
\* attempts goes on counting.
Call ==
  /\ started < MaxAnalyses
  /\ started' = started + 1
  /\ pc' = "idle"
  /\ audio' = "unread"
  /\ calls' = [i \in Runs |-> "unissued"]
  /\ response' = [i \in Runs |-> NoPayload]
  /\ results' = [i \in Runs |-> NoPayload]
  /\ reason' = NoError
  /\ outcome' = "pending"
  /\ returned' = NoPayload
  /\ thrown' = NoError
  /\ firstSettled' = 0
  /\ UNCHANGED <<impl, API_KEY, attempts, hlVars>>

\* what the handlers of the App leave alone
Service == <<impl, API_KEY, audio, pc, calls, attempts, response, results, reason,
             outcome, returned, thrown, firstSettled, hlVars>>

AppInit ==
  /\ app \in Apps
  /\ activeTab = "analyze"
  /\ appState = "idle"
  /\ isLoading = FALSE
  /\ file = FALSE
  /\ error = <<>>
  /\ analysisResult = NoPayload
  /\ started = 0
  /\ triedAgain = FALSE
  /\ NoComparison
  /\ impl \in Impls
  /\ API_KEY \in KeyValues
  /\ audio = "unread"
  /\ pc = "uncalled"
  /\ calls = [i \in Runs |-> "unissued"]
  /\ attempts = [i \in Runs |-> 0]
  /\ response = [i \in Runs |-> NoPayload]
  /\ results = [i \in Runs |-> NoPayload]
  /\ reason = NoError
  /\ outcome = "pending"
  /\ returned = NoPayload
  /\ thrown = NoError
  /\ firstSettled = 0
  /\ NotRendered

\* App.tsx:26-32: a file is dropped on the FileUpload of the analyze tab.
handleSingleFile ==
  /\ app = "App_10"
  /\ View = "upload"
  /\ appState' = "loading"
  /\ error' = <<>>
  /\ analysisResult' = NoPayload
  /\ loadingMessage' = AnalyzingMessage
  /\ Call
  /\ flow' = "single"
  /\ UNCHANGED <<app, activeTab, isLoading, file, triedAgain, oldFile, newFile,
                 oldAnalysisResult, newAnalysisResult, comparisonResult, report>>

\* App.tsx:32-38: the promise of analyzeAudio has settled and the handler goes on.
handleSingleFile_resumes ==
  /\ app = "App_10"
  /\ flow = "single"
  /\ outcome # "pending"
  /\ IF outcome = "success"
     THEN /\ analysisResult' = returned
          /\ appState' = "success"
          /\ UNCHANGED error
     ELSE /\ error' = MessageOf(thrown)
          /\ appState' = "error"
          /\ UNCHANGED analysisResult
  /\ flow' = "none"
  /\ UNCHANGED <<app, activeTab, isLoading, file, started, triedAgain, oldFile,
                 newFile, oldAnalysisResult, newAnalysisResult, comparisonResult,
                 loadingMessage, report, Service>>

\* the FileUpload of the older audio hands a file to setOldFile (App.tsx:143)
setOldFile ==
  /\ app = "App_10"
  /\ View = "compare"
  /\ oldFile' = TRUE
  /\ UNCHANGED <<app, activeTab, appState, isLoading, file, error, analysisResult,
                 started, triedAgain, newFile, oldAnalysisResult, newAnalysisResult,
                 comparisonResult, loadingMessage, flow, report, Service>>

\* the FileUpload of the newer audio hands a file to setNewFile (App.tsx:149)
setNewFile ==
  /\ app = "App_10"
  /\ View = "compare"
  /\ newFile' = TRUE
  /\ UNCHANGED <<app, activeTab, appState, isLoading, file, error, analysisResult,
                 started, triedAgain, oldFile, oldAnalysisResult, newAnalysisResult,
                 comparisonResult, loadingMessage, flow, report, Service>>

ComparisonFailed_success(err) ==
  /\ error' = MessageOf(err)
  /\ appState' = "success"
  /\ flow' = "none"

\* the catch block of handleComparisonFiles (App.tsx:63-66)
ComparisonFailed(err) ==
  /\ error' = MessageOf(err)
  /\ appState' = "error"
  /\ flow' = "none"

\* App.tsx:41-51: Compare Performance, disabled unless both files are selected.
\* The older audio is analyzed first.  A comparison is started when the
\* session has two analyses left.
handleComparisonFiles ==
  /\ app = "App_10"
  /\ View = "compare"
  /\ oldFile /\ newFile
  /\ started + 1 < MaxAnalyses
  /\ appState' = "loading"
  /\ error' = <<>>
  /\ comparisonResult' = NoReport
  /\ oldAnalysisResult' = NoPayload
  /\ newAnalysisResult' = NoPayload
  /\ loadingMessage' = "Analyzing older audio... (step 1 of 3)"
  /\ Call
  /\ flow' = "older"
  /\ UNCHANGED <<app, activeTab, isLoading, file, analysisResult, triedAgain,
                 oldFile, newFile, report>>

\* App.tsx:51-55: the analysis of the older audio has settled; on success the
\* newer audio is analyzed.
handleComparisonFiles_older ==
  /\ app = "App_10"
  /\ flow = "older"
  /\ outcome # "pending"
  /\ IF outcome = "success"
     THEN /\ oldAnalysisResult' = returned
          /\ loadingMessage' = "Analyzing newer audio... (step 2 of 3)"
          /\ Call
          /\ flow' = "newer"
          /\ UNCHANGED <<error, appState>>
     ELSE /\ ComparisonFailed(thrown)
          /\ UNCHANGED <<oldAnalysisResult, loadingMessage, started, Service>>
  /\ UNCHANGED <<app, activeTab, isLoading, file, analysisResult, triedAgain,
                 oldFile, newFile, newAnalysisResult, comparisonResult, report>>

\* generateComparisonReport is called (part_004:170-172): getAiClient throws
\* without a key, else the request is sent.
Compare ==
  report' = IF KeyMissing(API_KEY)
            THEN [state |-> "failure", value |-> NoReport, thrown |-> ConfigError("part_004")]
            ELSE [state |-> "inflight", value |-> NoReport, thrown |-> NoError]

\* App.tsx:55-59: the analysis of the newer audio has settled; on success the
\* comparison is requested.
handleComparisonFiles_newer ==
  /\ app = "App_10"
  /\ flow = "newer"
  /\ outcome # "pending"
  /\ IF outcome = "success"
     THEN /\ newAnalysisResult' = returned
          /\ loadingMessage' = "Comparing results... (step 3 of 3)"
          /\ Compare
          /\ flow' = "report"
          /\ UNCHANGED <<error, appState>>
     ELSE /\ ComparisonFailed(thrown)
          /\ UNCHANGED <<newAnalysisResult, loadingMessage, report>>
  /\ UNCHANGED <<app, activeTab, isLoading, file, analysisResult, started,
                 triedAgain, oldFile, newFile, oldAnalysisResult, comparisonResult,
                 Service>>

\* App.tsx:59-62: the promise of generateComparisonReport has settled.
handleComparisonFiles_report ==
  /\ app = "App_10"
  /\ flow = "report"
  /\ report.state \in {"success", "failure"}
  /\ IF report.state = "success"
     THEN /\ comparisonResult' = report.value
          /\ appState' = "success"
          /\ flow' = "none"
          /\ UNCHANGED error
     ELSE /\ ComparisonFailed(report.thrown)
          /\ UNCHANGED comparisonResult
  /\ UNCHANGED <<app, activeTab, isLoading, file, analysisResult, started,
                 triedAgain, oldFile, newFile, oldAnalysisResult, newAnalysisResult,
                 loadingMessage, report, Service>>

CompareFailedMessage == "Failed to compare analyses. Please try again."

\* generateContent answers the comparison with the JSON object r
\* (part_004:173-189).
ReportReturns(r) ==
  /\ report.state = "inflight"
  /\ report' = [state |-> "success", value |-> r, thrown |-> NoError]
  /\ UNCHANGED <<app, activeTab, appState, isLoading, file, error, analysisResult,
                 started, triedAgain, oldFile, newFile, oldAnalysisResult,
                 newAnalysisResult, comparisonResult, loadingMessage, flow, Service>>

\* generateContent rejects, or answers with a text JSON.parse rejects: the
\* catch block throws its own Error (part_004:190-193).
ReportFails ==
  /\ report.state = "inflight"
  /\ report' = [state |-> "failure", value |-> NoReport,
                thrown |-> [isError |-> TRUE, message |-> <<CompareFailedMessage>>]]
  /\ UNCHANGED <<app, activeTab, appState, isLoading, file, error, analysisResult,
                 started, triedAgain, oldFile, newFile, oldAnalysisResult,
                 newAnalysisResult, comparisonResult, loadingMessage, flow, Service>>

\* what handleReset sets (App.tsx:69-78)
Reset_staysInError ==
  /\ appState' = appState
  /\ error' = error
  /\ analysisResult' = NoPayload
  /\ comparisonResult' = NoReport
  /\ oldFile' = FALSE
  /\ newFile' = FALSE
  /\ oldAnalysisResult' = NoPayload
  /\ newAnalysisResult' = NoPayload

Reset ==
  /\ appState' = "idle"
  /\ error' = <<>>
  /\ analysisResult' = NoPayload
  /\ comparisonResult' = NoReport
  /\ oldFile' = FALSE
  /\ newFile' = FALSE
  /\ oldAnalysisResult' = NoPayload
  /\ newAnalysisResult' = NoPayload

\* Try Again, Analyze Another Audio, or the reset of the comparison card.
handleReset ==
  /\ app = "App_10"
  /\ View \in {"error", "results", "comparison"}
  /\ Reset
  /\ triedAgain' = (triedAgain \/ View = "error")
  /\ UNCHANGED <<app, activeTab, isLoading, file, started, loadingMessage, flow,
                 report, Service>>

SelectTab_noReset(tab) ==
  /\ app = "App_10"
  /\ appState # "loading"
  /\ activeTab' = tab
  /\ UNCHANGED <<app, appState, isLoading, file, error, analysisResult, started,
                 triedAgain, cmpVars, Service>>

SelectTab_whileLoading(tab) ==
  /\ app = "App_10"
  /\ Reset
  /\ activeTab' = tab
  /\ UNCHANGED <<app, isLoading, file, started, triedAgain, loadingMessage, flow,
                 report, Service>>

\* App.tsx:178-193: a tab button, disabled while loading.
SelectTab(tab) ==
  /\ app = "App_10"
  /\ appState # "loading"
  /\ Reset
  /\ activeTab' = tab
  /\ UNCHANGED <<app, isLoading, file, started, triedAgain, loadingMessage, flow,
                 report, Service>>

\* App.tsx:216-220
handleFileSelect ==
  /\ app = "App_210"
  /\ View = "upload"
  /\ file' = TRUE
  /\ analysisResult' = NoPayload
  /\ error' = <<>>
  /\ UNCHANGED <<app, activeTab, appState, isLoading, started, triedAgain, cmpVars,
                 Service>>

\* App.tsx:222-233: the Analyze Performance button, which is rendered in the
\* upload view once a file is selected (App.tsx:293-303).
handleAnalyzeClick ==
  /\ app = "App_210"
  /\ View = "upload"
  /\ file
  /\ IF ~file
     THEN /\ error' = <<SelectFirst>>
          /\ UNCHANGED <<isLoading, analysisResult, started, Service>>
     ELSE /\ isLoading' = TRUE
          /\ error' = <<>>
          /\ analysisResult' = NoPayload
          /\ Call
  /\ UNCHANGED <<app, activeTab, appState, file, triedAgain, cmpVars>>

\* App.tsx:233-240
handleAnalyzeClick_resumes ==
  /\ app = "App_210"
  /\ isLoading
  /\ outcome # "pending"
  /\ IF outcome = "success"
     THEN analysisResult' = returned /\ UNCHANGED error
     ELSE error' = MessageOf(thrown) /\ UNCHANGED analysisResult
  /\ isLoading' = FALSE
  /\ UNCHANGED <<app, activeTab, appState, file, started, triedAgain, cmpVars,
                 Service>>

\* App.tsx:243-248: Try Again, or Analyze Another File.
handleReset_210 ==
  /\ app = "App_210"
  /\ View \in {"error", "results"}
  /\ file' = FALSE
  /\ analysisResult' = NoPayload
  /\ error' = <<>>
  /\ isLoading' = FALSE
  /\ triedAgain' = (triedAgain \/ View = "error")
  /\ UNCHANGED <<app, activeTab, appState, started, cmpVars, Service>>

\* What the external model answers an analysis of the App with: a whole
\* answer, or one without a required field.
AppPayloads == {RefPayload, Without(RefPayload, "feedback")}

AppNext ==
  \/ handleSingleFile
  \/ handleSingleFile_resumes
  \/ handleReset
  \/ \E tab \in {"analyze", "compare"} : SelectTab(tab)
  \/ handleFileSelect
  \/ handleAnalyzeClick
  \/ handleAnalyzeClick_resumes
  \/ handleReset_210
  \/ setOldFile
  \/ setNewFile
  \/ handleComparisonFiles
  \/ handleComparisonFiles_older
  \/ handleComparisonFiles_newer
  \/ handleComparisonFiles_report
  \/ \E r \in Reports : ReportReturns(r)
  \/ ReportFails
  \/ analyzeAudio
  \/ FileLoaded
  \/ FileReadFails
  \/ \E i \in Runs, p \in AppPayloads : CallReturns(i, p)
  \/ \E i \in Runs : CallReturnsMalformed(i)
  \/ \E i \in Runs, e \in TransportErrors : CallFails(i, e)

AppSpec == AppInit /\ [][AppNext]_vars

\* ------------------------------------------------------------ claims
Settled(i) == calls[i] \in {"fulfilled", "rejected"}

\* the mean of the runs' overall scores, as the runs answered
MeanOverall == Div(SumOverall(response, analysisRuns), analysisRuns)

\* the mean over the runs of the score of the dimension called name, 0 for a
\* run without it
MeanByName(name) == Div(SumByName(response, name, analysisRuns), analysisRuns)

\* C1: the overallScore of every returned result is the mean of the three
\* runs' overallScore, rounded to 2 decimal places.
C1_OverallIsRoundedMean ==
  (outcome = "success" /\ \A i \in Runs : response[i].has = Required) =>
    returned.overallScore = toFixed2(MeanOverall)

\* C2: for every dimension of the first run, the merged score is the mean over
\* the runs of the score of the dimension of that name (0 for a run without
\* it), rounded to 2 decimal places.
C2_DimensionIsRoundedMeanByName ==
  (outcome = "success" /\ \A i \in Runs : response[i].has = Required) =>
    \A k \in 1..Len(response[1].dimensionAnalysis) :
      /\ k <= Len(returned.dimensionAnalysis)
      /\ returned.dimensionAnalysis[k].score =
           toFixed2(MeanByName(response[1].dimensionAnalysis[k].name))

Qualitative == {"feedback", "fillerWords", "conversation"}

\* C3: feedback, fillerWords and conversation of the returned result are those
\* of the first run, whatever the other runs answered.
C3_TextsOfFirstRun ==
  outcome = "success" =>
    /\ returned.feedback = response[1].feedback
    /\ returned.fillerWords = response[1].fillerWords
    /\ returned.conversation = response[1].conversation
    /\ returned.has \cap Qualitative = response[1].has \cap Qualitative

\* C3 happens: a result is returned after a later run answered with other
\* texts than the first.
C3_Witness ==
  /\ outcome = "success"
  /\ \E i \in Runs \ {1} :
       /\ response[i].feedback # response[1].feedback
       /\ response[i].fillerWords # response[1].fillerWords
       /\ response[i].conversation # response[1].conversation

\* C4: once a run has failed, analyzeAudio has failed and has returned no
\* result, and no run that settles later changes what it delivered.
C4_AnyFailureFailsAll ==
  /\ []((\E i \in Runs : calls[i] = "rejected") =>
          (outcome = "failure" /\ returned = NoPayload))
  /\ [][outcome # "pending" =>
          (outcome' = outcome /\ returned' = returned /\ thrown' = thrown)]_vars

\* C4 happens: one run answered before the failure (its value was collected),
\* one failed, and one answered after the failure.
C4_Witness ==
  /\ outcome = "failure"
  /\ \E a, b, c \in Runs :
       /\ calls[a] = "fulfilled" /\ results[a] # NoPayload
       /\ calls[b] = "rejected"
       /\ calls[c] = "fulfilled" /\ results[c] = NoPayload /\ response[c] # NoPayload

\* C5: when the answer of a run lacks a required field, analyzeAudio fails
\* and nothing is merged: the first run is left as it answered.
C5_MissingFieldFails ==
  (\E i \in Runs : Settled(i) /\ response[i] # NoPayload /\ response[i].has # Required) =>
    /\ outcome # "success"
    /\ results[1] \in {NoPayload, response[1]}

RECURSIVE TotalAttempts(_)
TotalAttempts(k) == IF k = 0 THEN 0 ELSE TotalAttempts(k - 1) + attempts[k]

\* C6 as stated: every execution of analyzeAudio issues exactly three calls,
\* each of them once.
C6_ExactlyThreeCalls ==
  pc = "done" => \A i \in Runs : attempts[i] = 1

\* C6 amended: no run is ever invoked twice and there is no fourth run, and
\* an execution that found the credential and read the file has invoked each
\* of the three runs exactly once, however the runs ended.
C6_ThreeCallsOnceEach ==
  /\ \A i \in Runs : attempts[i] <= 1
  /\ TotalAttempts(analysisRuns) <= analysisRuns
  /\ (API_KEY \notin {<<>>, <<"">>} /\ audio = "read") => \A i \in Runs : attempts[i] = 1

\* C6 happens: a run has failed, the execution is over, and every run was
\* invoked once.
C6_Witness ==
  /\ pc = "done"
  /\ outcome = "failure"
  /\ \E i \in Runs : calls[i] = "rejected"
  /\ \A i \in Runs : attempts[i] = 1

\* C7: when API_KEY is unset or empty, analyzeAudio fails with the
\* configuration error and generateContent is never invoked.
C7_NoKeyNoCall ==
  API_KEY \in {<<>>, <<"">>} =>
    /\ \A i \in Runs : attempts[i] = 0 /\ calls[i] = "unissued"
    /\ pc \in {"idle", "done"}
    /\ pc = "done" =>
         /\ outcome = "failure"
         /\ thrown.isError
         /\ thrown.message \in {<<ConfigMessage003>>, <<ConfigMessage004>>}

\* C7 happens: analyzeAudio was called without a key and is over.
C7_Witness ==
  /\ API_KEY \in {<<>>, <<"">>}
  /\ pc = "done"
  /\ outcome = "failure"

Parts(m) == {m[k] : k \in 1..Len(m)}

\* C8: when a run has failed with an Error, the error analyzeAudio delivers
\* keeps the message of that error and adds a describing message to it.
C8_ErrorWrappedAndPreserved ==
  (outcome = "failure" /\ reason # NoError /\ reason.isError) =>
    /\ Parts(reason.message) \subseteq Parts(thrown.message)
    /\ Len(thrown.message) > Len(reason.message)

\* C9: the three runs are issued together, before any of them is awaited, and
\* the returned result is the merge of the answers in the order the runs were
\* issued, whatever the order they settled in.
C9_ResultIndependentOfOrder ==
  /\ (\E i \in Runs : calls[i] # "unissued") => (\A i \in Runs : calls[i] # "unissued")
  /\ outcome = "success" => returned = Merge(impl, response).value

\* C9 happens: a result is returned and the first run was not the first to
\* answer; the run that was answered something else.
C9_Witness ==
  /\ outcome = "success"
  /\ firstSettled \in Runs \ {1}
  /\ \A i \in Runs \ {1} : response[i] # response[1]

\* C10: a result is delivered only when every run is fulfilled, and the
\* failure is delivered with the first rejection, whatever is still in flight.
C10_JoinAll ==
  /\ outcome = "success" => \A i \in Runs : calls[i] = "fulfilled"
  /\ (\E i \in Runs : calls[i] = "rejected") => (pc = "done" /\ outcome = "failure")
  /\ pc = "awaiting" => (outcome = "pending" /\ \E i \in Runs : calls[i] = "inflight")

\* C10 happens: the failure is delivered while two runs are still in flight.
C10_Witness ==
  /\ outcome = "failure"
  /\ Cardinality({i \in Runs : calls[i] = "inflight"}) = 2
  /\ \E i \in Runs : calls[i] = "rejected"

Names(p) == [k \in 1..Len(p.dimensionAnalysis) |-> p.dimensionAnalysis[k].name]

NameSet(p) == {p.dimensionAnalysis[k].name : k \in 1..Len(p.dimensionAnalysis)}

\* C18: the dimensions of the returned result have the names of the first
\* run's dimensions, in the first run's order: none added, none dropped.
C18_NamesOfFirstRun ==
  outcome = "success" => Names(returned) = Names(response[1])

\* C18 happens: a result is returned, a later run answered with a dimension
\* the first run has not, and a later run lacks a dimension of the first run.
C18_Witness ==
  /\ outcome = "success"
  /\ \E i \in Runs \ {1} : NameSet(response[i]) \ NameSet(response[1]) # {}
  /\ \E i \in Runs \ {1} : NameSet(response[1]) \ NameSet(response[i]) # {}

\* ------------------------------------------------------------ claims: App
\* the upload view of either tab: appState is idle
IdleView == View \in {"upload", "compare"}

\* the handler that awaits analyzeAudio goes on
Resumes ==
  \/ handleSingleFile_resumes
  \/ handleAnalyzeClick_resumes
  \/ handleComparisonFiles_older
  \/ handleComparisonFiles_newer
  \/ handleComparisonFiles_report

\* Try Again is pressed
TryAgain == handleReset \/ handleReset_210

\* the user gives a file, or starts the analysis of the file given
StartAgain == handleSingleFile \/ handleFileSelect \/ handleAnalyzeClick

\* an execution of analyzeAudio at its first statement: nothing issued yet
Fresh ==
  /\ pc = "idle"
  /\ outcome = "pending"
  /\ \A i \in Runs : calls[i] = "unissued"

\* C17: after a failed analysis the handler goes on and puts the App in the
\* error view with the message of the failure; in the error view Try Again leads to the idle view; in the
\* upload view an analysis can be started; and each analysis started is a new
\* execution of analyzeAudio, which issues every run again.
C17_FailureShownAndRetry ==
  /\ [][(Loading /\ ~Loading' /\ outcome = "failure") =>
          (View' = "error" /\ error' = MessageOf(thrown))]_vars
  /\ []((Loading /\ outcome = "failure") => ENABLED Resumes)
  /\ [](View = "error" => (error # <<>> /\ ENABLED (TryAgain /\ IdleView')))
  /\ []((View = "upload" /\ started < MaxAnalyses) => ENABLED StartAgain)
  /\ [][started' # started => Fresh']_vars
  /\ [][(pc = "reading" /\ pc' = "awaiting") =>
          \A i \in Runs : attempts'[i] = attempts[i] + 1 /\ calls'[i] = "inflight"]_vars

\* C17 happens: an analysis failed, Try Again was pressed, and the analysis
\* started after it has issued every run a second time.
C17_Witness ==
  /\ triedAgain
  /\ started = 2
  /\ pc = "awaiting"
  /\ \A i \in Runs : attempts[i] = 2 /\ calls[i] = "inflight"

\* ------------------------------------------------------------ claims: HighlightedText
RECURSIVE Concat(_, _)
Concat(sp, k) == IF k = 0 THEN <<>> ELSE Concat(sp, k - 1) \o sp[k].part

\* the index of the text (from 0) the k-th rendered element begins at
RECURSIVE StartIn(_, _)
StartIn(sp, k) == IF k = 1 THEN 0 ELSE StartIn(sp, k - 1) + Len(sp[k - 1].part)

Start(k) == StartIn(spans, k)

\* the flagged elements of sp: where each begins, its text and its mistake
Flagged(sp) ==
  {[at |-> StartIn(sp, k), part |-> sp[k].part, mistake |-> sp[k].mistake] :
     k \in {j \in 1..Len(sp) : sp[j].flagged}}

\* phrase ph stands in S at index i, letter case set aside
Occurs(ph, S, i) ==
  /\ i + Len(ph) <= Len(S)
  /\ toLowerCase(SubSeq(S, i + 1, i + Len(ph))) = toLowerCase(ph)

Contains(S, ph) == \E i \in 0..Len(S) : Occurs(ph, S, i)

HasList == mistakes.defined /\ mistakes.items # <<>>

\* C11: the texts of the rendered elements, put together in order, are the
\* input text: the same characters in the same case.
C11_RoundTrip == rendered => Concat(spans, Len(spans)) = text

\* C11 happens: a text with a capital letter is cut into a flagged element
\* between two plain ones.
C11_Witness ==
  /\ rendered
  /\ Len(spans) = 3
  /\ ~spans[1].flagged /\ spans[2].flagged /\ ~spans[3].flagged
  /\ \E k \in 1..Len(text) : text[k] = "A"

\* C12: without a mistake list, or with an empty one, exactly one plain element
\* is rendered and its text is the whole input text.
C12_NoMistakesOnePlainSpan ==
  (rendered /\ (~mistakes.defined \/ mistakes.items = <<>>)) =>
    spans = <<[part |-> text, flagged |-> FALSE, mistake |-> NoMistake]>>

\* C12 happens: a text of several characters was rendered with an empty list.
C12_Witness ==
  /\ rendered
  /\ mistakes.defined /\ mistakes.items = <<>>
  /\ Len(text) >= 2

\* a flagged element other than [i, i + n) that begins at or before i and
\* shares a character with it
OverlapsEarlier(i, n) ==
  \E k \in 1..Len(spans) :
    /\ spans[k].flagged
    /\ Start(k) <= i
    /\ Start(k) + Len(spans[k].part) > i
    /\ ~(Start(k) = i /\ Len(spans[k].part) = n)

FlaggedAt(i, n) ==
  \E k \in 1..Len(spans) : spans[k].flagged /\ Start(k) = i /\ Len(spans[k].part) = n

\* C13: every place a phrase of the list stands at, letter case set aside, is
\* a flagged element unless it overlaps an earlier flagged element, and no
\* plain element contains a phrase of the list.
C13_EveryOccurrenceFlagged ==
  (rendered /\ HasList) =>
    \A j \in 1..Len(mistakes.items) :
      LET ph == mistakes.items[j].incorrectPhrase
      IN  ph # <<>> =>
            /\ \A i \in 0..Len(text) :
                 (Occurs(ph, text, i) /\ ~OverlapsEarlier(i, Len(ph))) => FlaggedAt(i, Len(ph))
            /\ \A k \in 1..Len(spans) : ~spans[k].flagged => ~Contains(spans[k].part, ph)

HasMeta(ph) == \E k \in 1..Len(ph) : ph[k] \in Metacharacters

\* C14: the pattern matches a phrase only where its very characters stand,
\* letter case set aside, and a flagged element has the characters of the
\* phrase of its mistake.
C14_LiteralMatching ==
  rendered =>
    /\ \A k \in 1..Len(pieces) :
         pieces[k].alt # 0 =>
           toLowerCase(pieces[k].part) = toLowerCase(mistakes.items[pieces[k].alt].incorrectPhrase)
    /\ \A k \in 1..Len(spans) :
         spans[k].flagged =>
           toLowerCase(spans[k].part) = toLowerCase(spans[k].mistake.incorrectPhrase)

\* C14 happens: a phrase with a special character is flagged where it stands,
\* and a letter the phrase read as a pattern would match is left plain.
C14_Witness ==
  /\ rendered
  /\ \E k \in 1..Len(spans) : spans[k].flagged /\ HasMeta(spans[k].part)
  /\ \E k \in 1..Len(spans) : ~spans[k].flagged /\ Contains(spans[k].part, <<"a">>)
  /\ \A j \in 1..Len(mistakes.items) : HasMeta(mistakes.items[j].incorrectPhrase)

\* what HighlightedText renders for text S and the mistake prop m
Render(S, m) ==
  Elements(S, m, IF NoMistakes(m) THEN <<>> ELSE split(S, Alternatives(Source(m.items))))

NonEmptyPhrases(m) ==
  [m EXCEPT !.items = SelectSeq(@, LAMBDA x : x.incorrectPhrase # <<>>)]

\* C15: a mistake with the empty phrase is ignored: no element is flagged
\* with it, and the flagged elements (place, text and mistake) are those
\* rendered for the list without the empty phrases.  Equal element sequences,
\* as the claim has it, have equal flagged elements.
C15_EmptyPhraseIgnored ==
  (rendered /\ mistakes.defined) =>
    /\ \A k \in 1..Len(spans) :
         spans[k].flagged => spans[k].mistake.incorrectPhrase # <<>>
    /\ Flagged(spans) = Flagged(Render(text, NonEmptyPhrases(mistakes)))

\* C16: no rendered element is empty, a flagged element carries the mistake
\* of a phrase that stands there, and no two plain elements are adjacent.
C16_SpansWellFormed ==
  (rendered /\ HasList) =>
    /\ \A k \in 1..Len(spans) : spans[k].part # <<>>
    /\ \A k \in 1..Len(spans) :
         spans[k].flagged =>
           /\ \E j \in 1..Len(mistakes.items) : spans[k].mistake = mistakes.items[j]
           /\ toLowerCase(spans[k].mistake.incorrectPhrase) = toLowerCase(spans[k].part)
    /\ \A k \in 1..(Len(spans) - 1) : spans[k].flagged \/ spans[k + 1].flagged

\* the mistakes whose phrase, not empty, stands in the text at index i
Candidates(i) ==
  {j \in 1..Len(mistakes.items) :
     /\ mistakes.items[j].incorrectPhrase # <<>>
     /\ Occurs(mistakes.items[j].incorrectPhrase, text, i)}

\* C19: where a flagged element begins and several phrases of the list stand,
\* the element is the match of the first of them in the list: it has its
\* length and its mistake.
C19_FirstListedPhraseWins ==
  (rendered /\ HasList) =>
    \A k \in 1..Len(spans) :
      (spans[k].flagged /\ Cardinality(Candidates(Start(k))) >= 2) =>
        LET first == mistakes.items[Min(Candidates(Start(k)))]
        IN  /\ Len(spans[k].part) = Len(first.incorrectPhrase)
            /\ spans[k].mistake = first

SamePhrase(j, part) == toLowerCase(mistakes.items[j].incorrectPhrase) = toLowerCase(part)

\* C20: a flagged element shows the mistake of the first entry of the list
\* whose phrase is its text, letter case set aside.
C20_FirstEqualMistakeShown ==
  rendered =>
    \A k \in 1..Len(spans) :
      spans[k].flagged =>
        \E j \in 1..Len(mistakes.items) :
          /\ SamePhrase(j, spans[k].part)
          /\ \A h \in 1..(j - 1) : ~SamePhrase(h, spans[k].part)
          /\ spans[k].mistake = mistakes.items[j]

\* C20 happens: two mistakes have the same phrase in different case, and two
\* places of the text, one in each case, show the first of them.
C20_Witness ==
  /\ rendered
  /\ Len(mistakes.items) >= 2
  /\ mistakes.items[1].incorrectPhrase # mistakes.items[2].incorrectPhrase
  /\ SamePhrase(1, mistakes.items[2].incorrectPhrase)
  /\ \E k, h \in 1..Len(spans) :
       /\ spans[k].flagged /\ spans[h].flagged
       /\ spans[k].part # spans[h].part
       /\ spans[k].mistake = mistakes.items[1]
       /\ spans[h].mistake = mistakes.items[1]

\* ------------------------------------------------------------ validation
\* C21: a run whose answer carries all five required fields is accepted,
\* whatever the values of the fields: its promise is fulfilled, never rejected.
C21_WellFormedAccepted ==
  \A i \in Runs :
    (Settled(i) /\ response[i].has = Required) => calls[i] = "fulfilled"

\* ------------------------------------------------------------ the merge
\* C27: after analyzeAudio has returned, the result object of every run,
\* run 0 included, still holds the overall score and the dimension scores the
\* run answered with: the merge wrote into none of them.
C27_InputsUntouched ==
  outcome = "success" =>
    \A i \in Runs :
      /\ results[i].overallScore = response[i].overallScore
      /\ results[i].dimensionAnalysis = response[i].dimensionAnalysis

\* a score of the 0 to 5 scale, in hundredths
InRange(x) == ~IsNaN(x) /\ 0 <= x.n /\ x.n <= 500 * x.d

\* every run answered an overall score and dimension scores of the scale
RunsInRange ==
  \A i \in Runs :
    /\ "overallScore" \in response[i].has
    /\ InRange(response[i].overallScore)
    /\ \A k \in 1..Len(response[i].dimensionAnalysis) :
         InRange(response[i].dimensionAnalysis[k].score)

\* some run does not list a dimension the first run lists
SomeRunLacksDimension ==
  \E i \in Runs, k \in 1..Len(response[1].dimensionAnalysis) :
    response[1].dimensionAnalysis[k].name \notin NameSet(response[i])

\* C28: when every run's overall score and dimension scores lie between 0 and
\* 5, so do the merged overall score and every merged dimension score, also
\* when a run lacks a dimension of the first run.
C28_MergedInRange ==
  (outcome = "success" /\ RunsInRange) =>
    /\ InRange(returned.overallScore)
    /\ \A k \in 1..Len(returned.dimensionAnalysis) :
         InRange(returned.dimensionAnalysis[k].score)

C28_Witness ==
  /\ outcome = "success"
  /\ RunsInRange
  /\ SomeRunLacksDimension
  /\ \E k \in 1..Len(returned.dimensionAnalysis) :
       returned.dimensionAnalysis[k].score \notin {Num(0), Num(400), Num(500)}

\* ------------------------------------------------------------ completion
\* C22: every call of analyzeAudio completes, also when the read of the audio
\* file fails, and so the App does not stay in the loading view: once the read
\* has failed analyzeAudio has failed, and a loading App always has a step
\* ahead of it (of the read, of a run, or of its own handler).
\* some step of the running analysis, or of the handler awaiting it, can be taken
StepAhead ==
  \/ ENABLED analyzeAudio
  \/ ENABLED FileLoaded
  \/ ENABLED FileReadFails
  \/ \E i \in Runs : ENABLED CallReturnsMalformed(i)
  \/ ENABLED ReportFails
  \/ ENABLED Resumes

C22_CallCompletes ==
  /\ audio = "failed" => outcome = "failure"
  /\ Loading => StepAhead

\* ------------------------------------------------------------ the comparison flow
\* handleComparisonFiles is suspended at one of its three awaits
Comparing == flow \in {"older", "newer", "report"}

\* the step handleComparisonFiles awaits has failed
StepFailed ==
  \/ flow \in {"older", "newer"} /\ outcome = "failure"
  \/ flow = "report" /\ report.state = "failure"

\* C23: the three steps of handleComparisonFiles run one after the other.
\* While the older audio is analyzed nothing of the later steps exists; the
\* analysis of the newer audio is started only by the handler resuming from a
\* successful analysis of the older one; the comparison is requested only by
\* the handler resuming from a successful analysis of the newer one, with both
\* results stored.  When a step has failed the handler resumes, starts no
\* analysis and requests no comparison, and leaves the App in the error state.
C23_StepsInSequence ==
  /\ [](flow = "older" =>
          /\ oldAnalysisResult = NoPayload /\ newAnalysisResult = NoPayload
          /\ report.state # "inflight")
  /\ [](flow = "newer" =>
          /\ oldAnalysisResult # NoPayload /\ newAnalysisResult = NoPayload
          /\ report.state # "inflight")
  /\ [](report.state = "inflight" =>
          /\ flow = "report"
          /\ oldAnalysisResult # NoPayload /\ newAnalysisResult # NoPayload)
  /\ [][(Comparing /\ started' # started) =>
          /\ flow = "older" /\ outcome = "success"
          /\ flow' = "newer" /\ oldAnalysisResult' = returned]_vars
  /\ [][(report' # report /\ report'.state \notin {"success", "failure"}) =>
          /\ flow = "newer" /\ outcome = "success"
          /\ flow' = "report" /\ newAnalysisResult' = returned]_vars
  /\ [](Comparing /\ StepFailed => ENABLED Resumes)
  /\ [][(Comparing /\ StepFailed /\ flow' # flow) =>
          /\ flow' = "none" /\ appState' = "error"
          /\ started' = started /\ report' = report
          /\ comparisonResult' = NoReport]_vars
  /\ [](flow = "none" => report.state # "inflight")

\* C23 happens: the older audio was analyzed, the analysis of the newer one
\* failed, and the App shows the error with no comparison requested.
C23_Witness ==
  /\ activeTab = "compare"
  /\ appState = "error"
  /\ flow = "none"
  /\ started = 2
  /\ oldAnalysisResult # NoPayload
  /\ newAnalysisResult = NoPayload
  /\ report = NotCompared

\* ------------------------------------------------------------ one operation at a time
\* what the user can do: drop or select a file, press a button, pick a tab
UserAction ==
  \/ handleSingleFile
  \/ handleReset
  \/ \E tab \in {"analyze", "compare"} : SelectTab(tab)
  \/ setOldFile
  \/ setNewFile
  \/ handleComparisonFiles
  \/ handleFileSelect
  \/ handleAnalyzeClick
  \/ handleReset_210

\* an analysis or a comparison is under way
InFlight ==
  \/ pc \in {"idle", "reading", "awaiting", "hung"} /\ outcome = "pending"
  \/ report.state = "inflight"

\* the operation a handler awaits has failed
StepFailedOrAnalysisFailed ==
  IF app = "App_10" /\ Comparing THEN StepFailed ELSE outcome = "failure"

\* C24: while the App is loading no action of the user is enabled, so nothing
\* is started, reset or switched: an operation is under way only while the App
\* is loading, an analysis is started while loading only by the comparison
\* going on to its next step, the tab and the selection stay as they are, and
\* the step that ends the loading shows the outcome of the operation awaited.
C24_OneOperationAtATime ==
  /\ [](Loading => ~ENABLED UserAction)
  /\ [](InFlight => Loading)
  /\ [](~(pc \in {"idle", "reading", "awaiting", "hung"} /\ outcome = "pending"
           /\ report.state = "inflight"))
  /\ [][(Loading /\ started' # started) => (flow = "older" /\ flow' = "newer")]_vars
  /\ [][Loading => /\ activeTab' = activeTab
                   /\ triedAgain' = triedAgain
                   /\ <<file, oldFile, newFile>>' = <<file, oldFile, newFile>>]_vars
  /\ [][(Loading /\ ~Loading') =>
          /\ started' = started
          /\ \/ View' = "error" /\ StepFailedOrAnalysisFailed
             \/ View' = "results" /\ analysisResult' = returned /\ outcome = "success"
             \/ View' = "comparison" /\ comparisonResult' = report.value]_vars

\* C24 happens: after a reset a second analysis was started and has completed
\* while the App is loading.
C24_Witness ==
  /\ Loading
  /\ triedAgain
  /\ started = 2
  /\ outcome = "success"

\* ------------------------------------------------------------ invariants of the App state
\* C25: appState is "success" only with the results of the active tab stored:
\* analysisResult on the analyze tab; comparisonResult, oldAnalysisResult and
\* newAnalysisResult on the compare tab.  A success state therefore shows a
\* result card, never an upload view.
C25_SuccessHasResults ==
  appState = "success" =>
    /\ activeTab = "analyze" => analysisResult # NoPayload
    /\ activeTab = "compare" =>
         /\ comparisonResult # NoReport
         /\ oldAnalysisResult # NoPayload
         /\ newAnalysisResult # NoPayload
    /\ View \in {"results", "comparison"}

\* C25 happens: a comparison has succeeded and its card is shown.
C25_Witness ==
  /\ appState = "success"
  /\ activeTab = "compare"
  /\ View = "comparison"
  /\ flow = "none"

\* the user resets: Try Again, another analysis, or a tab button
Resets == handleReset \/ handleReset_210 \/ \E tab \in {"analyze", "compare"} : SelectTab(tab)

\* C26: the stored error message is non-null exactly when appState is "error"
\* (the first App, which has the appState); and every step that starts an
\* analysis or a comparison, and every reset, leaves the error null.
C26_ErrorIffErrorState ==
  /\ [](app = "App_10" => (error # <<>> <=> appState = "error"))
  /\ [][(~Loading /\ Loading') => error' = <<>>]_vars
  /\ [][Resets => error' = <<>>]_vars

\* C26 happens: an error was shown, Try Again cleared it, and the analysis
\* started afterwards failed as well and shows its own message.
C26_Witness ==
  /\ app = "App_10"
  /\ triedAgain
  /\ started = 2
  /\ appState = "error"
  /\ error # <<>>

====
